---- MODULE Spec2Model ----
(***************************************************************************)
(* Model of the Bitbucket Server MCP server (class BitbucketServer): the   *)
(* call-tool dispatcher, project resolution, the pull request input        *)
(* validator, the comment anchor builder, the per-tool request builders    *)
(* and response shaping, and the dispatcher's error classification.        *)
(*                                                                         *)
(* A tool call is an async handler: it runs synchronously up to its one    *)
(* `await this.api.get/post(...)` (action CallTool), is suspended while    *)
(* the upstream request is in flight, and resumes with the upstream's      *)
(* answer (action UpstreamRespond).                                        *)
(***************************************************************************)
EXTENDS Integers, Sequences, FiniteSets, TLC

(***************************************************************************)
(* Bounds of the model.                                                    *)
(***************************************************************************)
\* numbers supplied as prId, parentId and lineNumber range over 0..MaxId
MaxId == 1
\* the activity list of a pull request has at most MaxActivities entries
MaxActivities == 2

(***************************************************************************)
(* JavaScript values.  A value carries its typeof tag; s, n and a hold the *)
(* string, the number and the array elements.                              *)
(***************************************************************************)
Undef == [t |-> "undefined", s |-> "", n |-> 0, a |-> <<>>]
Str(x) == [t |-> "string", s |-> x, n |-> 0, a |-> <<>>]
Num(k) == [t |-> "number", s |-> "", n |-> k, a |-> <<>>]
Arr(q) == [t |-> "array", s |-> "", n |-> 0, a |-> q]

\* typeof v === 'string'
IsString(v) == v.t = "string"

\* ToBoolean(v): undefined, "" and 0 are falsy
Truthy(v) ==
  CASE v.t = "undefined" -> FALSE
    [] v.t = "string" -> v.s # ""
    [] v.t = "number" -> v.n # 0
    [] OTHER -> TRUE

\* a || b
OrElse(a, b) == IF Truthy(a) THEN a ELSE b

\* destructuring default  { x = d } : d replaces undefined only
Default_Falsy(v, d) == IF ~Truthy(v) THEN d ELSE v

Default(v, d) == IF v = Undef THEN d ELSE v

\* `${v}` inside a template literal
ToStr(v) ==
  CASE v.t = "string" -> v.s
    [] v.t = "number" -> ToString(v.n)
    [] v.t = "undefined" -> "undefined"
    [] OTHER -> "[object]"

(***************************************************************************)
(* Errors.  McpError carries an ErrorCode; an AxiosError carries the       *)
(* isAxiosError marker, its own message and possibly response.data.message.*)
(***************************************************************************)
NoError ==
  [class |-> "none", code |-> "none", message |-> "", responseMessage |-> Undef]
McpError(code, message) ==
  [class |-> "McpError", code |-> code, message |-> message, responseMessage |-> Undef]
AxiosError(message, responseMessage) ==
  [class |-> "AxiosError", code |-> "none", message |-> message,
   responseMessage |-> responseMessage]
TypeError(message) ==
  [class |-> "TypeError", code |-> "none", message |-> message, responseMessage |-> Undef]

\* axios.isAxiosError(error)
isAxiosError(error) == error.class = "AxiosError"

(***************************************************************************)
(* The argument bag of a call: every field the handlers read, undefined    *)
(* when the caller left it out (request.params.arguments ?? {}).           *)
(***************************************************************************)
Fields ==
  {"project", "repository", "prId", "title", "description", "sourceBranch",
   "targetBranch", "reviewers", "message", "strategy", "text", "parentId",
   "filePath", "lineNumber", "lineType", "fileType", "diffType", "fromHash",
   "toHash", "limit", "start", "state", "role", "order", "contextLines"}

ArgBag(r) == [f \in Fields |-> IF f \in DOMAIN r THEN r[f] ELSE Undef]

EmptyObject == [k \in {} |-> Undef]

(***************************************************************************)
(* Upstream requests.  A path is the sequence of its segments, each the    *)
(* text the template literal puts there.                                   *)
(***************************************************************************)
NoRequest ==
  [method |-> "none", path |-> <<>>, params |-> EmptyObject,
   headers |-> EmptyObject, body |-> EmptyObject]
Get(path, params, headers) ==
  [method |-> "GET", path |-> path, params |-> params,
   headers |-> headers, body |-> EmptyObject]
Post(path, body) ==
  [method |-> "POST", path |-> path, params |-> EmptyObject,
   headers |-> EmptyObject, body |-> body]

\* what the synchronous part of a handler ends with: a thrown error, or the
\* one awaited upstream request
Throw(error) == [op |-> "throw", error |-> error, request |-> NoRequest]
Await(request) == [op |-> "await", error |-> NoError, request |-> request]

\* defaults written in the handlers
DefaultLimit == 25
DefaultStart == 0
DefaultContextLines == 10
MergeVersion == -1

(***************************************************************************)
(* getProject: the provided project, else the configured default, else     *)
(* InvalidParams.                                                          *)
(***************************************************************************)
ProjectRequiredMessage ==
  "Project must be provided either as a parameter or through BITBUCKET_DEFAULT_PROJECT environment variable"

getProject_NoThrow(providedProject, defaultProject) ==
  [ok |-> TRUE, project |-> OrElse(providedProject, defaultProject), error |-> NoError]

getProject_Nullish(providedProject, defaultProject) ==
  LET project == Default(providedProject, defaultProject)
  IN IF project = Undef
       THEN [ok |-> FALSE, project |-> Undef,
             error |-> McpError("InvalidParams", ProjectRequiredMessage)]
       ELSE [ok |-> TRUE, project |-> project, error |-> NoError]

getProject(providedProject, defaultProject) ==
  LET project == OrElse(providedProject, defaultProject)
  IN IF ~Truthy(project)
       THEN [ok |-> FALSE, project |-> Undef,
             error |-> McpError("InvalidParams", ProjectRequiredMessage)]
       ELSE [ok |-> TRUE, project |-> project, error |-> NoError]

(***************************************************************************)
(* isPullRequestInput: the type guard of create_pull_request.              *)
(***************************************************************************)
isPullRequestInput_NoTargetBranch(args) ==
  /\ (args.project = Undef \/ IsString(args.project))
  /\ IsString(args.repository)
  /\ IsString(args.title)
  /\ IsString(args.sourceBranch)
  /\ (args.description = Undef \/ IsString(args.description))
  /\ (args.reviewers = Undef \/ args.reviewers.t = "array")

isPullRequestInput(args) ==
  /\ (args.project = Undef \/ IsString(args.project))
  /\ IsString(args.repository)
  /\ IsString(args.title)
  /\ IsString(args.sourceBranch)
  /\ IsString(args.targetBranch)
  /\ (args.description = Undef \/ IsString(args.description))
  /\ (args.reviewers = Undef \/ args.reviewers.t = "array")

(***************************************************************************)
(* The request builders: the part of each private method that runs before  *)
(* its await.                                                              *)
(***************************************************************************)
RequiredPrMessage == "Project, repository, and prId are required"

PrPath(project, repository, prId) ==
  <<"projects", ToStr(project), "repos", ToStr(repository), "pull-requests", ToStr(prId)>>

listProjects(options) ==
  LET limit == Default(options.limit, Num(DefaultLimit))
      start == Default(options.start, Num(DefaultStart))
  IN Await(Get(<<"projects">>, [limit |-> limit, start |-> start], EmptyObject))

listRepositories_ProjectOnly(options, defaultProject) ==
  LET limit == Default(options.limit, Num(DefaultLimit))
      start == Default(options.start, Num(DefaultStart))
      params == [limit |-> limit, start |-> start]
      endpoint == IF Truthy(options.project)
                    THEN <<"projects", ToStr(options.project), "repos">>
                    ELSE <<"repos">>
  IN Await(Get(endpoint, params, EmptyObject))

listRepositories(options, defaultProject) ==
  LET limit == Default(options.limit, Num(DefaultLimit))
      start == Default(options.start, Num(DefaultStart))
      params == [limit |-> limit, start |-> start]
      projectKey == OrElse(options.project, defaultProject)
      endpoint == IF Truthy(options.project) \/ Truthy(defaultProject)
                    THEN <<"projects", ToStr(projectKey), "repos">>
                    ELSE <<"repos">>
  IN Await(Get(endpoint, params, EmptyObject))

listPullRequests(options) ==
  LET order == Default(options.order, Str("NEWEST"))
      limit == Default(options.limit, Num(DefaultLimit))
      start == Default(options.start, Num(DefaultStart))
      params == [limit |-> limit, start |-> start, order |-> order]
                  @@ (IF Truthy(options.state) THEN [state |-> options.state] ELSE EmptyObject)
                  @@ (IF Truthy(options.role) THEN [role |-> options.role] ELSE EmptyObject)
  IN IF ~Truthy(options.project) \/ ~Truthy(options.repository)
       THEN Throw(McpError("InvalidParams", "Project and repository are required"))
       ELSE Await(Get(<<"projects", ToStr(options.project), "repos",
                        ToStr(options.repository), "pull-requests">>,
                      params, EmptyObject))

createPullRequest(input) ==
  LET repo == [slug |-> input.repository, project |-> [key |-> input.project]]
      \* input.reviewers?.map(username => ({ user: { name: username } }))
      reviewers == IF input.reviewers.t = "array"
                     THEN [i \in DOMAIN input.reviewers.a |->
                             [user |-> [name |-> input.reviewers.a[i]]]]
                     ELSE Undef
  IN Await(Post(<<"projects", ToStr(input.project), "repos",
                  ToStr(input.repository), "pull-requests">>,
                [title |-> input.title,
                 description |-> input.description,
                 fromRef |-> [id |-> "refs/heads/" \o ToStr(input.sourceBranch),
                              repository |-> repo],
                 toRef |-> [id |-> "refs/heads/" \o ToStr(input.targetBranch),
                            repository |-> repo],
                 reviewers |-> reviewers]))

getPullRequest(params) ==
  IF ~Truthy(params.project) \/ ~Truthy(params.repository) \/ ~Truthy(params.prId)
    THEN Throw(McpError("InvalidParams", RequiredPrMessage))
    ELSE Await(Get(PrPath(params.project, params.repository, params.prId),
                   EmptyObject, EmptyObject))

mergePullRequest_NoDefault(params, options) ==
  IF ~Truthy(params.project) \/ ~Truthy(params.repository) \/ ~Truthy(params.prId)
    THEN Throw(McpError("InvalidParams", RequiredPrMessage))
    ELSE Await(Post(PrPath(params.project, params.repository, params.prId) \o <<"merge">>,
                    [version |-> Num(MergeVersion), message |-> options.message,
                     strategy |-> options.strategy]))

mergePullRequest(params, options) ==
  LET strategy == Default(options.strategy, Str("merge-commit"))
  IN IF ~Truthy(params.project) \/ ~Truthy(params.repository) \/ ~Truthy(params.prId)
       THEN Throw(McpError("InvalidParams", RequiredPrMessage))
       ELSE Await(Post(PrPath(params.project, params.repository, params.prId) \o <<"merge">>,
                       [version |-> Num(MergeVersion), message |-> options.message,
                        strategy |-> strategy]))

declinePullRequest(params, message) ==
  IF ~Truthy(params.project) \/ ~Truthy(params.repository) \/ ~Truthy(params.prId)
    THEN Throw(McpError("InvalidParams", RequiredPrMessage))
    ELSE Await(Post(PrPath(params.project, params.repository, params.prId) \o <<"decline">>,
                    [version |-> Num(MergeVersion), message |-> message]))

(***************************************************************************)
(* The anchor of a file line comment, built in the add_comment case of the *)
(* dispatcher from the flat arguments.                                     *)
(***************************************************************************)
LineNumberRequiredMessage ==
  "lineNumber is required when filePath is provided for file line comments"

\* if (args.filePath)
HasFilePath_OrLine(args) == Truthy(args.filePath) \/ Truthy(args.lineNumber)

HasFilePath(args) == Truthy(args.filePath)

\* if (!args.lineNumber)
LineNumberMissing_Never(args) == FALSE

LineNumberMissing(args) == ~Truthy(args.lineNumber)

buildAnchor(args) ==
  IF HasFilePath(args)
    THEN IF LineNumberMissing(args)
           THEN [ok |-> FALSE, anchor |-> Undef,
                 error |-> McpError("InvalidParams", LineNumberRequiredMessage)]
           ELSE [ok |-> TRUE,
                 anchor |->
                   [diffType |-> OrElse(args.diffType, Str("EFFECTIVE")),
                    line |-> args.lineNumber,
                    lineType |-> OrElse(args.lineType, Str("CONTEXT")),
                    fileType |-> OrElse(args.fileType, Str("TO")),
                    path |-> args.filePath,
                    srcPath |-> args.filePath]
                   @@ (IF Truthy(args.fromHash)
                         THEN [fromHash |-> args.fromHash] ELSE EmptyObject)
                   @@ (IF Truthy(args.toHash)
                         THEN [toHash |-> args.toHash] ELSE EmptyObject),
                 error |-> NoError]
    ELSE [ok |-> TRUE, anchor |-> Undef, error |-> NoError]

\* anchor.k && { k: anchor.k }  spread into the request body's anchor
SpreadIf_Never(anchor, k) == EmptyObject

SpreadIf_Always(anchor, k) ==
  IF k \in DOMAIN anchor THEN [x \in {k} |-> anchor[k]] ELSE [x \in {k} |-> Undef]

SpreadIf(anchor, k) ==
  IF k \in DOMAIN anchor /\ Truthy(anchor[k]) THEN [x \in {k} |-> anchor[k]] ELSE EmptyObject

addComment(params, options) ==
  LET anchor == options.anchor
      requestBody ==
        [text |-> options.text,
         parent |-> IF Truthy(options.parentId) THEN [id |-> options.parentId] ELSE Undef]
      withAnchor ==
        IF anchor # Undef
          THEN requestBody @@
               [anchor |->
                  [diffType |-> anchor.diffType,
                   line |-> anchor.line,
                   lineType |-> anchor.lineType,
                   fileType |-> anchor.fileType,
                   path |-> anchor.path]
                  @@ SpreadIf(anchor, "fromHash")
                  @@ SpreadIf(anchor, "toHash")
                  @@ SpreadIf(anchor, "srcPath")]
          ELSE requestBody
  IN IF ~Truthy(params.project) \/ ~Truthy(params.repository) \/ ~Truthy(params.prId)
       THEN Throw(McpError("InvalidParams", RequiredPrMessage))
       ELSE Await(Post(PrPath(params.project, params.repository, params.prId) \o <<"comments">>,
                       withAnchor))

getDiff(params, contextLines) ==
  LET lines == Default(contextLines, Num(DefaultContextLines))
  IN IF ~Truthy(params.project) \/ ~Truthy(params.repository) \/ ~Truthy(params.prId)
       THEN Throw(McpError("InvalidParams", RequiredPrMessage))
       ELSE Await(Get(PrPath(params.project, params.repository, params.prId) \o <<"diff">>,
                      [contextLines |-> lines], [Accept |-> "text/plain"]))

getReviews(params) ==
  IF ~Truthy(params.project) \/ ~Truthy(params.repository) \/ ~Truthy(params.prId)
    THEN Throw(McpError("InvalidParams", RequiredPrMessage))
    ELSE Await(Get(PrPath(params.project, params.repository, params.prId) \o <<"activities">>,
                   EmptyObject, EmptyObject))

(***************************************************************************)
(* The switch of the call-tool handler, up to the await of the selected    *)
(* method (the body of the try block).                                     *)
(***************************************************************************)
ToolNames_Extra ==
  <<"list_projects", "list_repositories", "list_pull_requests", "create_pull_request",
    "get_pull_request", "merge_pull_request", "decline_pull_request", "add_comment",
    "get_diff", "get_reviews", "delete_repository">>

ToolNames ==
  <<"list_projects", "list_repositories", "list_pull_requests", "create_pull_request",
    "get_pull_request", "merge_pull_request", "decline_pull_request", "add_comment",
    "get_diff", "get_reviews">>

\* the default case of the switch
UnknownTool_Internal(name) == Throw(McpError("InternalError", "Unknown tool: " \o name))

UnknownTool(name) == Throw(McpError("MethodNotFound", "Unknown tool: " \o name))

PrParams(project, args) ==
  [project |-> project, repository |-> args.repository, prId |-> args.prId]

CallToolTry(name, args, config) ==
  LET resolved == getProject(args.project, config.defaultProject)
      pr == PrParams(resolved.project, args)
  IN CASE name = "list_projects" ->
            listProjects([limit |-> args.limit, start |-> args.start])
       [] name = "list_repositories" ->
            listRepositories([project |-> args.project, limit |-> args.limit,
                              start |-> args.start], config.defaultProject)
       [] name = "list_pull_requests" ->
            IF ~resolved.ok THEN Throw(resolved.error)
            ELSE listPullRequests([project |-> resolved.project,
                                   repository |-> args.repository,
                                   state |-> args.state, role |-> args.role,
                                   order |-> args.order, limit |-> args.limit,
                                   start |-> args.start])
       [] name = "create_pull_request" ->
            IF ~isPullRequestInput(args)
              THEN Throw(McpError("InvalidParams", "Invalid pull request input parameters"))
            ELSE IF ~resolved.ok THEN Throw(resolved.error)
            ELSE createPullRequest([args EXCEPT !.project = resolved.project])
       [] name = "get_pull_request" ->
            IF ~resolved.ok THEN Throw(resolved.error) ELSE getPullRequest(pr)
       [] name = "merge_pull_request" ->
            IF ~resolved.ok THEN Throw(resolved.error)
            ELSE mergePullRequest(pr, [message |-> args.message, strategy |-> args.strategy])
       [] name = "decline_pull_request" ->
            IF ~resolved.ok THEN Throw(resolved.error)
            ELSE declinePullRequest(pr, args.message)
       [] name = "add_comment" ->
            LET built == buildAnchor(args)
            IN IF ~resolved.ok THEN Throw(resolved.error)
               ELSE IF ~built.ok THEN Throw(built.error)
               ELSE addComment(pr, [text |-> args.text, parentId |-> args.parentId,
                                    anchor |-> built.anchor])
       [] name = "get_diff" ->
            IF ~resolved.ok THEN Throw(resolved.error) ELSE getDiff(pr, args.contextLines)
       [] name = "get_reviews" ->
            IF ~resolved.ok THEN Throw(resolved.error) ELSE getReviews(pr)
       [] OTHER -> UnknownTool(name)

(***************************************************************************)
(* The catch block of the call-tool handler.                               *)
(***************************************************************************)
\* error.response?.data.message ?? error.message
UpstreamMessage_FalsyFallback(error) ==
  IF ~Truthy(error.responseMessage) THEN error.message ELSE ToStr(error.responseMessage)

UpstreamMessage(error) ==
  IF error.responseMessage = Undef THEN error.message ELSE ToStr(error.responseMessage)

CallToolCatch_WrapAll(error) ==
  McpError("InternalError", "Bitbucket API error: " \o UpstreamMessage(error))

CallToolCatch(error) ==
  IF isAxiosError(error)
    THEN McpError("InternalError", "Bitbucket API error: " \o UpstreamMessage(error))
    ELSE error

(***************************************************************************)
(* Upstream answers and response shaping: the part of each private method  *)
(* that runs after its await.                                              *)
(***************************************************************************)
\* response.data: raw stands for a payload passed on whole; values and size
\* are the page fields the list handlers read (hasValues: data.values exists)
Data(raw, hasValues, values, size) ==
  [raw |-> raw, hasValues |-> hasValues, values |-> values, size |-> size]

\* JSON.stringify(x, null, 2), and a payload passed through as text
JsonText(x) == [format |-> "json", value |-> x]
PlainText(x) == [format |-> "verbatim", value |-> x]

Return(text) == [op |-> "return", error |-> NoError,
                 content |-> <<[type |-> "text", text |-> text]>>]
Raise(error) == [op |-> "throw", error |-> error, content |-> <<>>]

\* response.data.values || []
ValuesOrEmpty(data) == IF data.hasValues THEN data.values ELSE <<>>

\* new Date(ms).toISOString()
ToISOString(ms) == [iso |-> ms]

listProjectsResult(data) ==
  LET projects == ValuesOrEmpty(data)
  IN Return(JsonText(
       [total |-> OrElse(data.size, Num(Len(projects))),
        showing |-> Num(Len(projects)),
        projects |-> [i \in DOMAIN projects |->
                        [key |-> projects[i].key, name |-> projects[i].name]]]))

listRepositoriesResult(options, defaultProject, data) ==
  LET repositories == ValuesOrEmpty(data)
  IN Return(JsonText(
       [project |-> OrElse(OrElse(options.project, defaultProject), Str("all")),
        total |-> OrElse(data.size, Num(Len(repositories))),
        showing |-> Num(Len(repositories)),
        repositories |-> [i \in DOMAIN repositories |->
                            [slug |-> repositories[i].key,
                             name |-> repositories[i].name]]]))

listPullRequestsResult(options, data) ==
  LET pullRequests == ValuesOrEmpty(data)
  IN Return(JsonText(
       [project |-> options.project,
        repository |-> options.repository,
        filters |-> [state |-> options.state, role |-> options.role,
                     order |-> Default(options.order, Str("NEWEST"))],
        total |-> OrElse(data.size, Num(Len(pullRequests))),
        showing |-> Num(Len(pullRequests)),
        pullRequests |-> [i \in DOMAIN pullRequests |->
                            [id |-> pullRequests[i].key,
                             title |-> pullRequests[i].name,
                             createdDate |-> ToISOString(pullRequests[i].date)]]]))

\* createPullRequest, getPullRequest, mergePullRequest, declinePullRequest and
\* addComment all end with JSON.stringify(response.data, null, 2)
jsonResult(data) == Return(JsonText(data.raw))

getDiffResult_Json(data) == Return(JsonText(data.raw))

getDiffResult(data) == Return(PlainText(data.raw))

IsReview_ApprovedOnly(activity) == activity.action = "APPROVED"

IsReview(activity) == activity.action = "APPROVED" \/ activity.action = "REVIEWED"

RECURSIVE Filter(_)
Filter(activities) ==
  IF activities = <<>> THEN <<>>
  ELSE IF IsReview(Head(activities))
         THEN <<Head(activities)>> \o Filter(Tail(activities))
         ELSE Filter(Tail(activities))

getReviewsResult(data) ==
  IF ~data.hasValues
    THEN Raise(TypeError("Cannot read properties of undefined (reading 'filter')"))
    ELSE Return(JsonText(Filter(data.values)))

\* the continuation of the call-tool handler once the awaited request succeeded
CallToolResume(name, args, config, data) ==
  LET resolved == getProject(args.project, config.defaultProject)
  IN CASE name = "list_projects" -> listProjectsResult(data)
       [] name = "list_repositories" ->
            listRepositoriesResult([project |-> args.project], config.defaultProject, data)
       [] name = "list_pull_requests" ->
            listPullRequestsResult([project |-> resolved.project,
                                    repository |-> args.repository,
                                    state |-> args.state, role |-> args.role,
                                    order |-> args.order], data)
       [] name = "get_diff" -> getDiffResult(data)
       [] name = "get_reviews" -> getReviewsResult(data)
       [] OTHER -> jsonResult(data)

(***************************************************************************)
(* State.                                                                  *)
(*   config  the BitbucketConfig read from the environment at construction *)
(*   calls   per call slot: where the handler is (Idle: no call; Executing:*)
(*           its upstream request is awaited; Settled: the handler has     *)
(*           returned or thrown and the outcome is on its way to the       *)
(*           caller), the name and arguments of the call, the upstream     *)
(*           requests it sent, the upstream's answer and the outcome       *)
(*   server  the BitbucketServer object: whether its constructor has run   *)
(*           and how it ended, the axios instance it created and the       *)
(*           request handlers it registered                                *)
(*   listed  the tools array of the latest answer to a list-tools query    *)
(***************************************************************************)
VARIABLES config, calls, server, listed

vars == <<config, calls, server, listed>>

Slots == {"a", "b"}

NoOutcome == [status |-> "none", error |-> NoError, content |-> <<>>]
Failed(error) == [status |-> "error", error |-> error, content |-> <<>>]
Succeeded(content) == [status |-> "result", error |-> NoError, content |-> content]

NoResponse == [ok |-> FALSE, data |-> Data("", FALSE, <<>>, Undef), error |-> NoError]
Resolved(data) == [ok |-> TRUE, data |-> data, error |-> NoError]
Rejected(error) == [ok |-> FALSE, data |-> Data("", FALSE, <<>>, Undef), error |-> error]

IdleCall ==
  [pc |-> "Idle", name |-> "", args |-> ArgBag(EmptyObject), sent |-> <<>>,
   response |-> NoResponse, outcome |-> NoOutcome]

(***************************************************************************)
(* The constructor: the configuration read from the environment, the two   *)
(* checks, the axios instance and the registration of the handlers.        *)
(***************************************************************************)
\* this.config = { baseUrl: process.env.BITBUCKET_URL ?? '', ... }
ReadConfig(env) ==
  [baseUrl |-> IF env.BITBUCKET_URL = Undef THEN Str("") ELSE env.BITBUCKET_URL,
   token |-> env.BITBUCKET_TOKEN,
   username |-> env.BITBUCKET_USERNAME,
   password |-> env.BITBUCKET_PASSWORD,
   defaultProject |-> env.BITBUCKET_DEFAULT_PROJECT]

NoConfig ==
  [baseUrl |-> Undef, token |-> Undef, username |-> Undef, password |-> Undef,
   defaultProject |-> Undef]

NoApi == [baseURL |-> "", headers |-> EmptyObject, auth |-> Undef]

NotConstructed == [status |-> "new", error |-> "", api |-> NoApi, handlers |-> {}]
ConstructorThrew(message) ==
  [status |-> "failed", error |-> message, api |-> NoApi, handlers |-> {}]

\* !this.config.token && !(this.config.username && this.config.password)
AuthMissing_TokenOnly(cfg) == ~Truthy(cfg.token)

AuthMissing(cfg) ==
  ~Truthy(cfg.token) /\ ~(Truthy(cfg.username) /\ Truthy(cfg.password))

\* axios.create({ baseURL, headers, auth })
CreateApi(cfg) ==
  [baseURL |-> cfg.baseUrl.s \o "/rest/api/1.0",
   headers |-> IF Truthy(cfg.token)
                 THEN [Authorization |-> "Bearer " \o cfg.token.s]
                 ELSE EmptyObject,
   auth |-> IF Truthy(cfg.username) /\ Truthy(cfg.password)
              THEN [username |-> cfg.username, password |-> cfg.password]
              ELSE Undef]

\* setupToolHandlers registers the list-tools and the call-tool handler
Handlers == {"ListToolsRequestSchema", "CallToolRequestSchema"}

\* the constructor after this.config is set
NewServer(cfg) ==
  IF ~Truthy(cfg.baseUrl)
    THEN ConstructorThrew("BITBUCKET_URL is required")
  ELSE IF AuthMissing(cfg)
    THEN ConstructorThrew("Either BITBUCKET_TOKEN or BITBUCKET_USERNAME/PASSWORD is required")
  ELSE [status |-> "running", error |-> "", api |-> CreateApi(cfg), handlers |-> Handlers]

(***************************************************************************)
(* The list-tools handler: the tool descriptors, in the order written.     *)
(* A descriptor is modelled by its name, the type of each property of its  *)
(* inputSchema and its required list.                                      *)
(***************************************************************************)
PrProperties == [project |-> "string", repository |-> "string", prId |-> "number"]
PageProperties == [limit |-> "number", start |-> "number"]

Properties(name) ==
  CASE name = "list_projects" -> PageProperties
    [] name = "list_repositories" -> [project |-> "string"] @@ PageProperties
    [] name = "list_pull_requests" ->
         [project |-> "string", repository |-> "string", state |-> "string",
          role |-> "string", order |-> "string"] @@ PageProperties
    [] name = "create_pull_request" ->
         [project |-> "string", repository |-> "string", title |-> "string",
          description |-> "string", sourceBranch |-> "string",
          targetBranch |-> "string", reviewers |-> "array"]
    [] name = "merge_pull_request" ->
         PrProperties @@ [message |-> "string", strategy |-> "string"]
    [] name = "decline_pull_request" -> PrProperties @@ [message |-> "string"]
    [] name = "add_comment" ->
         PrProperties @@
         [text |-> "string", parentId |-> "number", filePath |-> "string",
          lineNumber |-> "number", lineType |-> "string", fileType |-> "string",
          diffType |-> "string", fromHash |-> "string", toHash |-> "string"]
    [] name = "get_diff" -> PrProperties @@ [contextLines |-> "number"]
    [] OTHER -> PrProperties

Required(name) ==
  CASE name \in {"list_projects", "list_repositories"} -> {}
    [] name = "list_pull_requests" -> {"repository"}
    [] name = "create_pull_request" ->
         {"repository", "title", "sourceBranch", "targetBranch"}
    [] name = "add_comment" -> {"repository", "prId", "text"}
    [] OTHER -> {"repository", "prId"}

ListToolsResult_Duplicate ==
  [i \in DOMAIN ToolNames |->
     LET name == IF i = Len(ToolNames) THEN ToolNames[1] ELSE ToolNames[i]
     IN [name |-> name, properties |-> Properties(name), required |-> Required(name)]]

ListToolsResult ==
  [i \in DOMAIN ToolNames |->
     [name |-> ToolNames[i], properties |-> Properties(ToolNames[i]),
      required |-> Required(ToolNames[i])]]

NotListed == <<>>

(***************************************************************************)
(* Inputs: configurations, tool names, argument bags, upstream answers.    *)
(***************************************************************************)
Configs ==
  {[baseUrl |-> Str("https://bitbucket.example.com"), token |-> Str("test-token"),
    username |-> Undef, password |-> Undef, defaultProject |-> d] :
     d \in {Undef, Str(""), Str("DEFAULT")}}

UnknownNames == {"bogus_tool", "delete_repository"}
Names == {ToolNames[i] : i \in DOMAIN ToolNames} \cup UnknownNames

ProjectVals == {Undef, Str(""), Str("PROJ")}
RepositoryVals == {Undef, Str("repo")}
IdVals == {Undef} \cup {Num(k) : k \in 0..MaxId}
LimitVals == {Undef, Num(0), Num(50)}
StartVals == {Undef, Num(10)}

PrArgs ==
  {[project |-> p, repository |-> r, prId |-> i] :
     p \in ProjectVals, r \in RepositoryVals, i \in IdVals}

AnchorArgs ==
  {[filePath |-> f, lineNumber |-> l, diffType |-> d, lineType |-> lt,
    fileType |-> ft, fromHash |-> fh, toHash |-> th] :
     f \in {Undef, Str(""), Str("src/a.ts")}, l \in IdVals,
     d \in {Undef, Str("RANGE")}, lt \in {Undef, Str("ADDED")},
     ft \in {Undef, Str("FROM")}, fh \in {Undef, Str(""), Str("abc123")},
     th \in {Undef, Str("def456")}}

\* calls that leave out a required field, give it a value of another type,
\* or give a field a value outside the set or range its schema describes
MistypedArgs(name) ==
  CASE name = "add_comment" ->
         {ArgBag(pr @@ [text |-> t]) : pr \in PrArgs, t \in {Undef, Num(7)}}
         \cup
         {ArgBag([project |-> Str("PROJ"), repository |-> Str("repo"), prId |-> Num(1),
                  text |-> Str("Looks good"), filePath |-> Str("src/a.ts"),
                  lineNumber |-> l, diffType |-> d, lineType |-> lt, fileType |-> ft]) :
            l \in {Num(-1), Num(1)}, d \in {Undef, Str("SIDE_BY_SIDE")},
            lt \in {Undef, Str("MOVED")}, ft \in {Undef, Str("BOTH")}}
    [] name = "get_pull_request" ->
         {ArgBag([project |-> Str("PROJ"), repository |-> Num(5), prId |-> Num(1)]),
          ArgBag([project |-> Str("PROJ"), repository |-> Str("repo"), prId |-> Str("1")])}
    [] name = "create_pull_request" ->
         {ArgBag([project |-> p, repository |-> Str("repo"), title |-> Num(7),
                  sourceBranch |-> Str("feature"), targetBranch |-> Str("main")]) :
            p \in {Undef, Num(5)}}
    [] OTHER -> {}

WellTypedArgs(name) ==
  CASE name = "list_projects" ->
         {ArgBag([limit |-> l, start |-> s]) : l \in LimitVals, s \in StartVals}
    [] name = "list_repositories" ->
         {ArgBag([project |-> p, limit |-> l, start |-> s]) :
            p \in ProjectVals, l \in LimitVals, s \in StartVals}
    [] name = "list_pull_requests" ->
         {ArgBag([project |-> p, repository |-> r, state |-> st, role |-> ro,
                  order |-> o, limit |-> l, start |-> sa]) :
            p \in ProjectVals, r \in RepositoryVals, st \in {Undef, Str("OPEN")},
            ro \in {Undef, Str("AUTHOR")}, o \in {Undef, Str("OLDEST")},
            l \in {Undef, Num(50)}, sa \in StartVals}
    [] name = "create_pull_request" ->
         {ArgBag([project |-> p, repository |-> r, title |-> t, sourceBranch |-> sb,
                  targetBranch |-> tb, description |-> d, reviewers |-> rv]) :
            p \in ProjectVals, r \in RepositoryVals, t \in {Undef, Str("Test PR")},
            sb \in {Undef, Str("feature")}, tb \in {Undef, Str("main")},
            d \in {Undef, Str("Test description")},
            rv \in {Undef, Arr(<<Str("user1")>>)}}
    [] name = "merge_pull_request" ->
         {ArgBag(pr @@ [message |-> m, strategy |-> st]) :
            pr \in PrArgs, m \in {Undef, Str("Merged PR")},
            st \in {Undef, Str(""), Str("squash")}}
    [] name = "decline_pull_request" ->
         {ArgBag(pr @@ [message |-> m]) : pr \in PrArgs, m \in {Undef, Str("Not needed")}}
    [] name = "add_comment" ->
         {ArgBag(pr @@ an @@ [text |-> Str("Looks good"), parentId |-> pa]) :
            pr \in PrArgs, an \in AnchorArgs, pa \in {Undef, Num(0), Num(1)}}
    [] name = "get_diff" ->
         {ArgBag(pr @@ [contextLines |-> c]) : pr \in PrArgs, c \in {Undef, Num(3)}}
    [] name \in {"get_pull_request", "get_reviews"} ->
         {ArgBag(pr) : pr \in PrArgs}
    [] OTHER ->
         {ArgBag(EmptyObject), ArgBag([project |-> Str("PROJ"), repository |-> Str("repo")])}

ArgsFor(name) == WellTypedArgs(name) \cup MistypedArgs(name)

\* failures of the awaited request: a failure without a response, and HTTP
\* error responses whose payload has no message, an empty one, or a message
UpstreamErrors ==
  {AxiosError("Network Error", Undef)} \cup
  {AxiosError("Request failed with status code 404", m) :
     m \in {Undef, Str(""), Str("Not found")}}

Item == [key |-> Str("K1"), name |-> Str("First"), date |-> 0]
Pages ==
  {Data("", FALSE, <<>>, Undef), Data("", TRUE, <<>>, Undef),
   Data("", TRUE, <<Item>>, Num(7))}

Actions == {"APPROVED", "COMMENTED", "REVIEWED"}
ActivityLists ==
  UNION {{[i \in 1..n |-> [action |-> f[i], id |-> i]] : f \in [1..n -> Actions]} :
           n \in 0..MaxActivities}

Payloads(name) ==
  CASE name \in {"list_projects", "list_repositories", "list_pull_requests"} -> Pages
    [] name = "get_reviews" ->
         {Data("", FALSE, <<>>, Undef)} \cup
         {Data("", TRUE, l, Undef) : l \in ActivityLists}
    [] name = "get_diff" -> {Data("diff --git a/f b/f", FALSE, <<>>, Undef)}
    [] OTHER -> {Data("{id: 1}", FALSE, <<>>, Undef)}

Responses(name) ==
  {Resolved(d) : d \in Payloads(name)} \cup {Rejected(e) : e \in UpstreamErrors}

(***************************************************************************)
(* Actions.                                                                *)
(***************************************************************************)
Init ==
  /\ config \in Configs
  /\ server = NewServer(config)
  /\ calls = [c \in Slots |-> IdleCall]
  /\ listed = NotListed

\* the call-tool handler from its entry to its first await, or to the error
\* it throws before awaiting anything
CallTool_SharedProject(c, name, args) ==
  /\ "CallToolRequestSchema" \in server.handlers
  /\ calls[c].pc = "Idle"
  /\ LET other == CHOOSE d \in Slots : d # c
         shared == [args EXCEPT !.project = OrElse(args.project, calls[other].args.project)]
         step == CallToolTry(name, shared, config)
     IN calls' = [calls EXCEPT ![c] =
          IF step.op = "throw"
            THEN [pc |-> "Settled", name |-> name, args |-> args, sent |-> <<>>,
                  response |-> NoResponse,
                  outcome |-> Failed(CallToolCatch(step.error))]
            ELSE [pc |-> "Executing", name |-> name, args |-> args,
                  sent |-> <<step.request>>,
                  response |-> NoResponse, outcome |-> NoOutcome]]
  /\ UNCHANGED <<config, server, listed>>

CallTool(c, name, args) ==
  /\ "CallToolRequestSchema" \in server.handlers
  /\ calls[c].pc = "Idle"
  /\ LET step == CallToolTry(name, args, config)
     IN calls' = [calls EXCEPT ![c] =
          IF step.op = "throw"
            THEN [pc |-> "Settled", name |-> name, args |-> args, sent |-> <<>>,
                  response |-> NoResponse,
                  outcome |-> Failed(CallToolCatch(step.error))]
            ELSE [pc |-> "Executing", name |-> name, args |-> args,
                  sent |-> <<step.request>>,
                  response |-> NoResponse, outcome |-> NoOutcome]]
  /\ UNCHANGED <<config, server, listed>>

\* the awaited request settles and the handler runs to its end
UpstreamRespond_Retry(c, response) ==
  /\ calls[c].pc = "Executing"
  /\ LET call == calls[c]
         step == IF response.ok
                   THEN CallToolResume(call.name, call.args, config, response.data)
                   ELSE Raise(response.error)
     IN calls' = [calls EXCEPT ![c] =
          [call EXCEPT !.pc = "Settled",
                       !.sent = IF response.ok THEN call.sent
                                ELSE call.sent \o <<call.sent[1]>>,
                       !.response = response,
                       !.outcome = IF step.op = "throw"
                                     THEN Failed(CallToolCatch(step.error))
                                     ELSE Succeeded(step.content)]]
  /\ UNCHANGED <<config, server, listed>>

UpstreamRespond(c, response) ==
  /\ calls[c].pc = "Executing"
  /\ LET call == calls[c]
         step == IF response.ok
                   THEN CallToolResume(call.name, call.args, config, response.data)
                   ELSE Raise(response.error)
     IN calls' = [calls EXCEPT ![c] =
          [call EXCEPT !.pc = "Settled",
                       !.response = response,
                       !.outcome = IF step.op = "throw"
                                     THEN Failed(CallToolCatch(step.error))
                                     ELSE Succeeded(step.content)]]
  /\ UNCHANGED <<config, server, listed>>

\* the outcome reaches the caller; nothing of the call is kept
Deliver_FatalError(c) ==
  /\ calls[c].pc = "Settled"
  /\ calls' = [calls EXCEPT ![c] = IdleCall]
  /\ server' = IF calls[c].outcome.status = "error"
                 THEN [server EXCEPT !.status = "failed", !.handlers = {}]
                 ELSE server
  /\ UNCHANGED <<config, listed>>

Deliver(c) ==
  /\ calls[c].pc = "Settled"
  /\ calls' = [calls EXCEPT ![c] = IdleCall]
  /\ UNCHANGED <<config, server, listed>>

\* a caller sends a call-tool request, the upstream answers a request
Call(c) ==
  /\ "CallToolRequestSchema" \in server.handlers
  /\ calls[c].pc = "Idle"
  /\ \E name \in Names : \E args \in ArgsFor(name) : CallTool(c, name, args)

Respond(c) ==
  /\ calls[c].pc = "Executing"
  /\ \E response \in Responses(calls[c].name) : UpstreamRespond(c, response)

\* the list-tools handler
ListTools ==
  /\ "ListToolsRequestSchema" \in server.handlers
  /\ listed' = ListToolsResult
  /\ UNCHANGED <<config, calls, server>>

Next ==
  \/ Call("a")
  \/ Respond("a")
  \/ Deliver("a")
  \/ ListTools

Spec == Init /\ [][Next]_vars

(***************************************************************************)
(* src/index.ts: the call-tool handler as that file has it.  It has no     *)
(* list_pull_requests case and no anchor in add_comment, and its type      *)
(* guard wants project to be a string.  Everything after the await is the  *)
(* same code.                                                              *)
(***************************************************************************)
isPullRequestInputIndex(args) ==
  /\ IsString(args.project)
  /\ IsString(args.repository)
  /\ IsString(args.title)
  /\ IsString(args.sourceBranch)
  /\ IsString(args.targetBranch)
  /\ (args.description = Undef \/ IsString(args.description))
  /\ (args.reviewers = Undef \/ args.reviewers.t = "array")

CallToolTryIndex(name, args, cfg) ==
  LET resolved == getProject(args.project, cfg.defaultProject)
      pr == PrParams(resolved.project, args)
  IN CASE name = "list_pull_requests" -> UnknownTool(name)
       [] name = "create_pull_request" ->
            IF ~isPullRequestInputIndex(args)
              THEN Throw(McpError("InvalidParams", "Invalid pull request input parameters"))
            ELSE IF ~resolved.ok THEN Throw(resolved.error)
            ELSE createPullRequest([args EXCEPT !.project = resolved.project])
       [] name = "add_comment" ->
            IF ~resolved.ok THEN Throw(resolved.error)
            ELSE addComment(pr, [text |-> args.text, parentId |-> args.parentId,
                                 anchor |-> Undef])
       [] OTHER -> CallToolTry(name, args, cfg)

CallToolIndex(c, name, args) ==
  /\ "CallToolRequestSchema" \in server.handlers
  /\ calls[c].pc = "Idle"
  /\ LET step == CallToolTryIndex(name, args, config)
     IN calls' = [calls EXCEPT ![c] =
          IF step.op = "throw"
            THEN [pc |-> "Settled", name |-> name, args |-> args, sent |-> <<>>,
                  response |-> NoResponse,
                  outcome |-> Failed(CallToolCatch(step.error))]
            ELSE [pc |-> "Executing", name |-> name, args |-> args,
                  sent |-> <<step.request>>,
                  response |-> NoResponse, outcome |-> NoOutcome]]
  /\ UNCHANGED <<config, server, listed>>

CallIndex(c) ==
  /\ "CallToolRequestSchema" \in server.handlers
  /\ calls[c].pc = "Idle"
  /\ \E name \in Names : \E args \in ArgsFor(name) : CallToolIndex(c, name, args)

NextIndex ==
  \/ CallIndex("a")
  \/ Respond("a")
  \/ Deliver("a")

SpecIndex == Init /\ [][NextIndex]_vars

(***************************************************************************)
(* The call-tool handler in finer steps: entering the handler (the request *)
(* is logged and its arguments read) and the switch with its checks are    *)
(* two steps, so that a call is seen while it validates.  The event loop   *)
(* runs the handler and delivers its outcome once it can; the upstream is  *)
(* taken to answer or fail every request.                                  *)
(***************************************************************************)
ReceiveCall_Dispatch(c, name, args) == CallTool(c, name, args)

ReceiveCall(c, name, args) ==
  /\ "CallToolRequestSchema" \in server.handlers
  /\ calls[c].pc = "Idle"
  /\ calls' = [calls EXCEPT ![c] =
       [pc |-> "Validating", name |-> name, args |-> args, sent |-> <<>>,
        response |-> NoResponse, outcome |-> NoOutcome]]
  /\ UNCHANGED <<config, server, listed>>

Receive(c) ==
  /\ "CallToolRequestSchema" \in server.handlers
  /\ calls[c].pc = "Idle"
  /\ \E name \in Names : \E args \in ArgsFor(name) : ReceiveCall(c, name, args)

Validate(c) ==
  /\ calls[c].pc = "Validating"
  /\ LET call == calls[c]
         step == CallToolTry(call.name, call.args, config)
     IN calls' = [calls EXCEPT ![c] =
          IF step.op = "throw"
            THEN [call EXCEPT !.pc = "Settled",
                              !.outcome = Failed(CallToolCatch(step.error))]
            ELSE [call EXCEPT !.pc = "Executing", !.sent = <<step.request>>]]
  /\ UNCHANGED <<config, server, listed>>

NextCycle ==
  \/ Receive("a")
  \/ Validate("a")
  \/ Respond("a")
  \/ Deliver("a")

SpecCycle ==
  /\ Init
  /\ [][NextCycle]_vars
  /\ WF_vars(Validate("a"))
  /\ WF_vars(Respond("a"))
  /\ WF_vars(Deliver("a"))

(***************************************************************************)
(* Two calls in flight.  The handler is an async function: while one call  *)
(* awaits its upstream request the event loop can enter the handler for    *)
(* another request.  The steps are those of the single call; the calls are *)
(* drawn from a smaller set, with two projects, an anchor and an unknown   *)
(* name.                                                                   *)
(***************************************************************************)
PairNames == {"get_pull_request", "add_comment", "get_reviews", "bogus_tool"}

PairArgs(name) ==
  CASE name \in {"get_pull_request", "get_reviews"} ->
         {ArgBag([project |-> p, repository |-> Str("repo"), prId |-> i]) :
            p \in {Undef, Str("PROJ"), Str("OTHER")}, i \in {Num(k) : k \in 1..MaxId}}
    [] name = "add_comment" ->
         {ArgBag([project |-> p, repository |-> Str("repo"), prId |-> Num(1),
                  text |-> Str("Looks good"), filePath |-> f, lineNumber |-> l]) :
            p \in {Undef, Str("PROJ")}, f \in {Undef, Str("src/a.ts")},
            l \in {Undef, Num(1)}}
    [] OTHER -> {ArgBag(EmptyObject)}

PairResponses(name) ==
  {Resolved(d) : d \in
     IF name = "get_reviews"
       THEN {Data("", TRUE, <<[action |-> "APPROVED", id |-> 1]>>, Undef)}
       ELSE {Data("{id: 1}", FALSE, <<>>, Undef)}}
  \cup {Rejected(AxiosError("Request failed with status code 404", Str("Not found")))}

CallPair_Serial(c) ==
  /\ "CallToolRequestSchema" \in server.handlers
  /\ \A d \in Slots : calls[d].pc = "Idle"
  /\ \E name \in PairNames : \E args \in PairArgs(name) : CallTool(c, name, args)

CallPair(c) ==
  /\ "CallToolRequestSchema" \in server.handlers
  /\ calls[c].pc = "Idle"
  /\ \E name \in PairNames : \E args \in PairArgs(name) : CallTool(c, name, args)

RespondPair(c) ==
  /\ calls[c].pc = "Executing"
  /\ \E response \in PairResponses(calls[c].name) : UpstreamRespond(c, response)

NextPair ==
  \E c \in Slots :
    \/ CallPair(c)
    \/ RespondPair(c)
    \/ Deliver(c)

SpecPair == Init /\ [][NextPair]_vars

(***************************************************************************)
(* Start-up: the constructor runs once on the environment of the process.  *)
(***************************************************************************)
Envs ==
  {[BITBUCKET_URL |-> u, BITBUCKET_TOKEN |-> t, BITBUCKET_USERNAME |-> n,
    BITBUCKET_PASSWORD |-> p, BITBUCKET_DEFAULT_PROJECT |-> d] :
     u \in {Undef, Str(""), Str("https://bitbucket.example.com")},
     t \in {Undef, Str(""), Str("test-token")},
     n \in {Undef, Str(""), Str("testuser")},
     p \in {Undef, Str(""), Str("testpass")},
     d \in {Undef, Str("DEFAULT")}}

InitStartup ==
  /\ config = NoConfig
  /\ server = NotConstructed
  /\ calls = [c \in Slots |-> IdleCall]
  /\ listed = NotListed

\* new BitbucketServer()
Construct(env) ==
  /\ server.status = "new"
  /\ config' = ReadConfig(env)
  /\ server' = NewServer(ReadConfig(env))
  /\ UNCHANGED <<calls, listed>>

Start == \E env \in Envs : Construct(env)

NextStartup ==
  \/ Start
  \/ ListTools

SpecStartup == InitStartup /\ [][NextStartup]_vars

TypeOK ==
  /\ config \in Configs
  /\ \A c \in Slots :
       /\ calls[c].pc \in {"Idle", "Validating", "Executing", "Settled"}
       /\ Len(calls[c].sent) <= 1
       /\ calls[c].outcome.status \in {"none", "result", "error"}

(***************************************************************************)
(* Vocabulary of the properties.                                           *)
(***************************************************************************)
\* the slot holds a call whose synchronous part has run
Acted(c) == calls[c].pc # "Idle"

\* the call has ended with the classified error `code`
FailedWith(c, code) ==
  /\ calls[c].pc = "Settled"
  /\ calls[c].outcome.status = "error"
  /\ calls[c].outcome.error.class = "McpError"
  /\ calls[c].outcome.error.code = code

\* the project segment of a request path, "" for a path outside /projects/..
ProjectOf(request) ==
  IF Len(request.path) >= 2 /\ request.path[1] = "projects" THEN request.path[2] ELSE ""

\* a string argument is supplied when it is present and not empty
Supplied(v) == IsString(v) /\ v.s # ""

ProjectTools ==
  {"list_repositories", "list_pull_requests", "create_pull_request", "get_pull_request",
   "merge_pull_request", "decline_pull_request", "add_comment", "get_diff", "get_reviews"}

\* a call of tool set T that omits project: with a default configured, project
\* resolution does not fail and every request of the call addresses the default
UsesDefault(c, T) ==
  (/\ Acted(c)
   /\ calls[c].name \in T
   /\ calls[c].args.project = Undef
   /\ Truthy(config.defaultProject))
  => /\ calls[c].outcome.error.message # ProjectRequiredMessage
     /\ \A i \in DOMAIN calls[c].sent :
          ProjectOf(calls[c].sent[i]) = config.defaultProject.s

\* a call of tool set T that omits project: without a default it fails with
\* InvalidParams and sends nothing
FailsWithoutDefault(c, T) ==
  (/\ Acted(c)
   /\ calls[c].name \in T
   /\ calls[c].args.project = Undef
   /\ ~Truthy(config.defaultProject))
  => /\ FailedWith(c, "InvalidParams")
     /\ calls[c].sent = <<>>

\* C1 as stated: every tool that declares a project field, list_repositories
\* included, uses the default project when project is omitted and fails with
\* InvalidParams when there is no default either.
C1_AllProjectTools ==
  \A c \in Slots : UsesDefault(c, ProjectTools) /\ FailsWithoutDefault(c, ProjectTools)

\* C1 (amended): the tools that resolve project through getProject use the
\* default project when project is omitted and fail with InvalidParams when
\* there is no default; list_repositories uses the default too, but without a
\* default it does not fail: it requests /repos.
C1_DefaultProject ==
  \A c \in Slots :
    /\ UsesDefault(c, ProjectTools)
    /\ FailsWithoutDefault(c, ProjectTools \ {"list_repositories"})
    /\ (/\ Acted(c)
        /\ calls[c].name = "list_repositories"
        /\ calls[c].args.project = Undef
        /\ ~Truthy(config.defaultProject))
       => /\ Len(calls[c].sent) = 1
          /\ calls[c].sent[1].path = <<"repos">>
          /\ calls[c].outcome.status # "error" \/ ~calls[c].response.ok

C1_Witness ==
  \E c \in Slots :
    /\ calls[c].name = "add_comment"
    /\ calls[c].args.project = Undef
    /\ config.defaultProject = Str("DEFAULT")
    /\ Len(calls[c].sent) = 1
    /\ ProjectOf(calls[c].sent[1]) = "DEFAULT"

\* C2: a call whose name is not a registered tool fails with MethodNotFound
\* and the message "Unknown tool: <name>", and sends no upstream request.
C2_UnknownTool ==
  \A c \in Slots :
    (Acted(c) /\ calls[c].name \notin {ToolNames[i] : i \in DOMAIN ToolNames})
    => /\ FailedWith(c, "MethodNotFound")
       /\ calls[c].outcome.error.message = "Unknown tool: " \o calls[c].name
       /\ (calls[c].name = "bogus_tool"
             => calls[c].outcome.error.message = "Unknown tool: bogus_tool")
       /\ calls[c].sent = <<>>

C2_Witness ==
  \E c \in Slots :
    /\ calls[c].pc = "Settled"
    /\ calls[c].name = "bogus_tool"
    /\ calls[c].outcome.error.code = "MethodNotFound"

\* C3: a create_pull_request call that lacks repository, title, sourceBranch
\* or targetBranch fails with InvalidParams and sends no upstream request,
\* whatever the other arguments and the default project.
C3_MalformedCreate ==
  \A c \in Slots :
    (/\ Acted(c)
     /\ calls[c].name = "create_pull_request"
     /\ \E f \in {"repository", "title", "sourceBranch", "targetBranch"} :
          calls[c].args[f] = Undef)
    => /\ FailedWith(c, "InvalidParams")
       /\ calls[c].sent = <<>>

C3_Witness ==
  \E c \in Slots :
    /\ calls[c].pc = "Settled"
    /\ calls[c].name = "create_pull_request"
    /\ calls[c].args.targetBranch = Undef
    /\ calls[c].args.title # Undef
    /\ calls[c].args.project # Undef
    /\ config.defaultProject = Str("DEFAULT")
    /\ calls[c].outcome.error.code = "InvalidParams"

\* the anchor in the body of a request, when the body has one
HasAnchor(request) == "anchor" \in DOMAIN request.body

\* C4: an add_comment call that supplies filePath but no lineNumber fails
\* with InvalidParams and sends no upstream request: the comment is never
\* posted without its anchor.
C4_LineNumberRequired ==
  \A c \in Slots :
    (/\ Acted(c)
     /\ calls[c].name = "add_comment"
     /\ Supplied(calls[c].args.filePath)
     /\ calls[c].args.lineNumber = Undef)
    => /\ FailedWith(c, "InvalidParams")
       /\ calls[c].sent = <<>>

C4_Witness ==
  \E c \in Slots :
    /\ calls[c].pc = "Settled"
    /\ calls[c].name = "add_comment"
    /\ calls[c].args.filePath = Str("src/a.ts")
    /\ calls[c].args.lineNumber = Undef
    /\ calls[c].args.project = Str("PROJ")
    /\ calls[c].args.repository = Str("repo")
    /\ calls[c].args.prId = Num(1)
    /\ calls[c].outcome.error.message = LineNumberRequiredMessage

\* the value an anchor field takes: the supplied one, else its default
SuppliedOr(v, d) == IF Supplied(v) THEN v ELSE Str(d)

\* C5: every request of an add_comment call that supplies filePath and
\* lineNumber carries an anchor whose line is the supplied lineNumber, whose
\* path and srcPath are the supplied filePath, and whose diffType, lineType
\* and fileType are the supplied values, or EFFECTIVE, CONTEXT and TO for
\* each one that is absent.
C5_AnchorFields ==
  \A c \in Slots :
    (/\ Acted(c)
     /\ calls[c].name = "add_comment"
     /\ Supplied(calls[c].args.filePath)
     /\ calls[c].args.lineNumber # Undef)
    => \A i \in DOMAIN calls[c].sent :
         LET request == calls[c].sent[i]
             args == calls[c].args
         IN /\ HasAnchor(request)
            /\ request.body.anchor.line = args.lineNumber
            /\ request.body.anchor.path = args.filePath
            /\ "srcPath" \in DOMAIN request.body.anchor
            /\ request.body.anchor.srcPath = args.filePath
            /\ request.body.anchor.diffType = SuppliedOr(args.diffType, "EFFECTIVE")
            /\ request.body.anchor.lineType = SuppliedOr(args.lineType, "CONTEXT")
            /\ request.body.anchor.fileType = SuppliedOr(args.fileType, "TO")

C5_Witness ==
  \E c \in Slots :
    /\ calls[c].name = "add_comment"
    /\ calls[c].args.filePath = Str("src/a.ts")
    /\ calls[c].args.lineNumber = Num(1)
    /\ calls[c].args.lineType = Str("ADDED")
    /\ calls[c].args.diffType = Undef
    /\ Len(calls[c].sent) = 1
    /\ HasAnchor(calls[c].sent[1])
    /\ calls[c].sent[1].body.anchor.diffType = Str("EFFECTIVE")
    /\ calls[c].sent[1].body.anchor.lineType = Str("ADDED")

\* C6: no request of an add_comment call that supplies no filePath carries
\* an anchor, whether or not lineNumber, lineType, fileType, diffType,
\* fromHash or toHash were supplied.
C6_PlainComment ==
  \A c \in Slots :
    (/\ Acted(c)
     /\ calls[c].name = "add_comment"
     /\ calls[c].args.filePath = Undef)
    => /\ \A i \in DOMAIN calls[c].sent : ~HasAnchor(calls[c].sent[i])
       /\ calls[c].outcome.error.message # LineNumberRequiredMessage

C6_Witness ==
  \E c \in Slots :
    /\ calls[c].name = "add_comment"
    /\ calls[c].args.filePath = Undef
    /\ calls[c].args.lineNumber = Num(1)
    /\ calls[c].args.fromHash = Str("abc123")
    /\ calls[c].args.diffType = Str("RANGE")
    /\ Len(calls[c].sent) = 1
    /\ ~HasAnchor(calls[c].sent[1])
    /\ calls[c].sent[1].body.text = Str("Looks good")

\* C7: in every anchor add_comment sends, the fromHash key is present exactly
\* when the caller supplied fromHash and the toHash key exactly when the
\* caller supplied toHash; a key that is present holds the supplied value,
\* never an empty or undefined one.
C7_HashKeys ==
  \A c \in Slots :
    (Acted(c) /\ calls[c].name = "add_comment")
    => \A i \in DOMAIN calls[c].sent :
         HasAnchor(calls[c].sent[i])
         => \A k \in {"fromHash", "toHash"} :
              LET anchor == calls[c].sent[i].body.anchor
              IN /\ (k \in DOMAIN anchor) <=> Supplied(calls[c].args[k])
                 /\ (k \in DOMAIN anchor)
                      => /\ anchor[k] = calls[c].args[k]
                         /\ anchor[k] # Undef
                         /\ anchor[k] # Str("")

C7_Witness ==
  \E c \in Slots :
    /\ calls[c].name = "add_comment"
    /\ calls[c].args.fromHash = Str("abc123")
    /\ calls[c].args.toHash = Undef
    /\ Len(calls[c].sent) = 1
    /\ HasAnchor(calls[c].sent[1])
    /\ "fromHash" \in DOMAIN calls[c].sent[1].body.anchor
    /\ "toHash" \notin DOMAIN calls[c].sent[1].body.anchor

\* the call's upstream request was answered with an HTTP/transport failure
UpstreamFailed(c) ==
  /\ calls[c].pc = "Settled"
  /\ calls[c].sent # <<>>
  /\ ~calls[c].response.ok

\* C8: a call whose upstream request fails receives a classified error whose
\* message is "Bitbucket API error: " followed by the message of the upstream
\* response payload when there is one, and by the failure's own message
\* otherwise.
C8_UpstreamMessage ==
  \A c \in Slots :
    UpstreamFailed(c)
    => LET failure == calls[c].response.error
       IN /\ calls[c].outcome.status = "error"
          /\ calls[c].outcome.error.class = "McpError"
          /\ calls[c].outcome.error.message =
               IF failure.responseMessage # Undef
                 THEN "Bitbucket API error: " \o failure.responseMessage.s
                 ELSE "Bitbucket API error: " \o failure.message

C8_Witness ==
  \E c \in Slots :
    /\ UpstreamFailed(c)
    /\ calls[c].name = "get_pull_request"
    /\ calls[c].response.error.responseMessage = Str("Not found")
    /\ calls[c].outcome.error.message = "Bitbucket API error: Not found"

\* C9 as stated: an upstream failure is surfaced with the kind UpstreamError,
\* distinct from InternalError.
C9_UpstreamErrorKind ==
  \A c \in Slots :
    UpstreamFailed(c)
    => /\ calls[c].outcome.error.code = "UpstreamError"
       /\ calls[c].outcome.error.code # "InternalError"

\* C9 (amended): an upstream failure is surfaced as a classified error of
\* kind InternalError; there is no UpstreamError kind.  No other failure of a
\* call is given the kind InternalError by the dispatcher (validation
\* failures are InvalidParams, an unknown tool is MethodNotFound, any other
\* failure is rethrown as it is), so an error of kind InternalError always
\* stems from an upstream failure and carries the "Bitbucket API error: "
\* message.
C9_InternalErrorKind ==
  \A c \in Slots :
    /\ UpstreamFailed(c) => FailedWith(c, "InternalError")
    /\ FailedWith(c, "InternalError")
         => /\ UpstreamFailed(c)
            /\ calls[c].outcome.error.message =
                 "Bitbucket API error: " \o UpstreamMessage(calls[c].response.error)

C9_Witness ==
  \E c \in Slots :
    /\ UpstreamFailed(c)
    /\ calls[c].name = "get_reviews"
    /\ calls[c].outcome.error.code = "InternalError"

ErrorKinds == {"InvalidParams", "MethodNotFound", "UpstreamError", "InternalError"}

\* C10: every failed call ends with a classified error of one of the four
\* kinds and a message, whatever made it fail; a call whose upstream request
\* failed never ends with a result.
C10_AlwaysClassified ==
  \A c \in Slots :
    calls[c].pc = "Settled"
    => /\ calls[c].outcome.status \in {"result", "error"}
       /\ calls[c].outcome.status = "error"
            => /\ calls[c].outcome.error.class = "McpError"
               /\ calls[c].outcome.error.code \in ErrorKinds
               /\ calls[c].outcome.error.message # ""
       /\ (calls[c].sent = <<>> \/ ~calls[c].response.ok)
            => calls[c].outcome.status = "error"

\* typeof of an argument, as the inputSchema names types
TypeOf(v) == v.t

\* some field the tool's inputSchema requires is absent or of another type
\* than the schema declares
BreaksSchema(name, args) ==
  \E f \in Required(name) : args[f] = Undef \/ TypeOf(args[f]) # Properties(name)[f]

\* C11: a call that omits a field its tool's schema requires, or gives it a
\* value that is not of the declared type, fails with InvalidParams and
\* sends no upstream request.
C11_RequiredFields ==
  \A c \in Slots :
    (/\ Acted(c)
     /\ calls[c].name \in {ToolNames[i] : i \in DOMAIN ToolNames}
     /\ BreaksSchema(calls[c].name, calls[c].args))
    => /\ FailedWith(c, "InvalidParams")
       /\ calls[c].sent = <<>>

\* a configuration value that is set and not empty
Configured(v) == IsString(v) /\ v.s # ""

\* C12: the constructor fails, registering no handler, exactly when the base
\* URL is empty or neither a token nor both a username and a password are
\* configured; otherwise, with or without a default project, it succeeds and
\* registers both handlers.
C12_ConstructorFails ==
  server.status # "new"
  => /\ server.status \in {"failed", "running"}
     /\ (server.status = "failed")
          <=> \/ ~Configured(config.baseUrl)
              \/ /\ ~Configured(config.token)
                 /\ ~(Configured(config.username) /\ Configured(config.password))
     /\ server.status = "failed" => (server.handlers = {} /\ listed = NotListed)
     /\ server.status = "running" => server.handlers = Handlers

C12_Witness ==
  /\ server.status = "failed"
  /\ Configured(config.baseUrl)
  /\ Configured(config.username)
  /\ config.password = Str("")
  /\ config.defaultProject = Str("DEFAULT")
  /\ server.handlers = {}

\* the authentication modes the axios instance carries
BearerInEffect == "Authorization" \in DOMAIN server.api.headers
BasicInEffect == server.api.auth # Undef

\* C13: a constructed server has exactly one authentication mode in effect,
\* the bearer header or the basic credentials, never both and never neither.
C13_OneAuthMode ==
  server.status = "running"
  => /\ BearerInEffect \/ BasicInEffect
     /\ ~(BearerInEffect /\ BasicInEffect)

\* the positions of an activity list whose entry is an approval or a review
ReviewPositions(activities) ==
  {i \in DOMAIN activities : activities[i].action \in {"APPROVED", "REVIEWED"}}

\* kept is activities restricted to the positions in P, in the same order
IsRestriction(kept, activities, P) ==
  /\ Len(kept) = Cardinality(P)
  /\ \E pos \in [DOMAIN kept -> P] :
       /\ \A i, j \in DOMAIN kept : i < j => pos[i] < pos[j]
       /\ \A i \in DOMAIN kept : kept[i] = activities[pos[i]]

\* C14: whenever the upstream answers get_reviews with an activity list, the
\* call returns the JSON text of exactly the entries whose action is APPROVED
\* or REVIEWED, each unchanged and in their original relative order.
C14_ReviewsFiltered ==
  \A c \in Slots :
    (/\ calls[c].pc = "Settled"
     /\ calls[c].name = "get_reviews"
     /\ calls[c].response.ok
     /\ calls[c].response.data.hasValues)
    => LET activities == calls[c].response.data.values
       IN /\ calls[c].outcome.status = "result"
          /\ Len(calls[c].outcome.content) = 1
          /\ calls[c].outcome.content[1].text.format = "json"
          /\ IsRestriction(calls[c].outcome.content[1].text.value, activities,
                           ReviewPositions(activities))

C14_Witness ==
  \E c \in Slots :
    /\ calls[c].pc = "Settled"
    /\ calls[c].name = "get_reviews"
    /\ calls[c].response.ok
    /\ calls[c].response.data.hasValues
    /\ calls[c].response.data.values =
         <<[action |-> "COMMENTED", id |-> 1], [action |-> "REVIEWED", id |-> 2]>>
    /\ calls[c].outcome.status = "result"
    /\ calls[c].outcome.content[1].text.value = <<[action |-> "REVIEWED", id |-> 2]>>

\* C15: every list-tools query answers with the same ordered sequence of
\* descriptors, whose names are pairwise distinct, whatever tool calls were
\* made, succeeded or failed, since the previous query.
C15_ListToolsStable ==
  /\ [](listed # NotListed
         => \A i, j \in DOMAIN listed : listed[i].name = listed[j].name => i = j)
  /\ [][/\ listed # NotListed => listed' = listed
        /\ calls' # calls => listed' = listed]_vars

C15_Witness ==
  /\ listed # NotListed
  /\ Len(listed) = Len(ToolNames)
  /\ calls["a"].pc = "Settled"
  /\ calls["a"].outcome.status = "error"

\* the tools whose result is the upstream payload serialized as it came
PassThroughTools ==
  {"create_pull_request", "get_pull_request", "merge_pull_request",
   "decline_pull_request", "add_comment"}

\* C16: a call that succeeds returns exactly one content element, of type
\* "text"; for get_diff its text is the upstream payload verbatim, for every
\* other tool it is a JSON serialization, and for the tools that do not
\* reshape the payload it is the serialization of the payload itself.
C16_TextResult ==
  \A c \in Slots :
    (calls[c].pc = "Settled" /\ calls[c].outcome.status = "result")
    => LET content == calls[c].outcome.content
           payload == calls[c].response.data
       IN /\ calls[c].response.ok
          /\ Len(content) = 1
          /\ content[1].type = "text"
          /\ calls[c].name = "get_diff"
               => (content[1].text.format = "verbatim"
                   /\ content[1].text.value = payload.raw)
          /\ calls[c].name # "get_diff" => content[1].text.format = "json"
          /\ calls[c].name \in PassThroughTools
               => content[1].text.value = payload.raw

C16_Witness ==
  \E c \in Slots :
    /\ calls[c].pc = "Settled"
    /\ calls[c].name = "get_diff"
    /\ calls[c].outcome.status = "result"
    /\ calls[c].outcome.content =
         <<[type |-> "text", text |-> [format |-> "verbatim",
                                       value |-> "diff --git a/f b/f"]]>>

\* a create_pull_request call that leaves project out and gives the four
\* mandatory strings, with the optional fields absent or of their type
OmitsProjectOnly(c) ==
  /\ Acted(c)
  /\ calls[c].name = "create_pull_request"
  /\ calls[c].args.project = Undef
  /\ \A f \in {"repository", "title", "sourceBranch", "targetBranch"} :
       IsString(calls[c].args[f])
  /\ calls[c].args.description = Undef \/ IsString(calls[c].args.description)
  /\ calls[c].args.reviewers = Undef \/ calls[c].args.reviewers.t = "array"

\* C17: a create_pull_request call that omits project and supplies string
\* repository, title, sourceBranch and targetBranch is never rejected as
\* invalid pull request input; without a default project it fails in project
\* resolution, with one its request goes upstream under the default project.
C17_ProjectOptional ==
  \A c \in Slots :
    OmitsProjectOnly(c)
    => IF Truthy(config.defaultProject)
         THEN /\ Len(calls[c].sent) = 1
              /\ ProjectOf(calls[c].sent[1]) = config.defaultProject.s
         ELSE /\ calls[c].sent = <<>>
              /\ FailedWith(c, "InvalidParams")
              /\ calls[c].outcome.error.message = ProjectRequiredMessage

\* the tools that address one pull request by its number
PrTools ==
  {"get_pull_request", "merge_pull_request", "decline_pull_request",
   "add_comment", "get_diff", "get_reviews"}

IsNumber(v) == v.t = "number"

\* a call on a pull request whose project resolves, whose repository is
\* named and whose numeric identifiers are all numbers
NumericIdsGiven(c) ==
  /\ Acted(c)
  /\ calls[c].name \in PrTools
  /\ Supplied(calls[c].args.project) \/ Supplied(config.defaultProject)
  /\ Supplied(calls[c].args.repository)
  /\ IsNumber(calls[c].args.prId)
  /\ (calls[c].name = "add_comment" /\ Supplied(calls[c].args.filePath))
       => IsNumber(calls[c].args.lineNumber)

\* C18: whatever number is given as prId, parentId or lineNumber, zero
\* included, the call is not rejected by the handler and the number is in the
\* request it sends: prId in the path, parentId as the parent comment's id,
\* lineNumber as the anchor's line.
C18_NumericIdsForwarded ==
  \A c \in Slots :
    NumericIdsGiven(c)
    => /\ Len(calls[c].sent) = 1
       /\ calls[c].sent[1].path[6] = ToStr(calls[c].args.prId)
       /\ (calls[c].name = "add_comment" /\ IsNumber(calls[c].args.parentId))
            => calls[c].sent[1].body.parent = [id |-> calls[c].args.parentId]
       /\ (calls[c].name = "add_comment" /\ Supplied(calls[c].args.filePath))
            => /\ HasAnchor(calls[c].sent[1])
               /\ calls[c].sent[1].body.anchor.line = calls[c].args.lineNumber

ListTools3 == {"list_projects", "list_repositories", "list_pull_requests"}

\* the value a request carries for an optional argument: the caller's when
\* the call has one, the default otherwise
GivenOr(v, d) == IF v # Undef THEN v ELSE d

\* C19: every request of list_projects, list_repositories and
\* list_pull_requests carries as limit the caller's limit, or 25 when the
\* call has none, and as start the caller's start, or 0 when it has none.
C19_Pagination ==
  \A c \in Slots :
    calls[c].name \in ListTools3
    => \A i \in DOMAIN calls[c].sent :
         /\ calls[c].sent[i].params.limit = GivenOr(calls[c].args.limit, Num(25))
         /\ calls[c].sent[i].params.start = GivenOr(calls[c].args.start, Num(0))

C19_Witness ==
  \E c \in Slots :
    /\ calls[c].name = "list_projects"
    /\ calls[c].args.limit = Num(0)
    /\ calls[c].args.start = Undef
    /\ Len(calls[c].sent) = 1
    /\ calls[c].sent[1].params = [limit |-> Num(0), start |-> Num(0)]

\* C20: every request of merge_pull_request is a POST to the merge
\* sub-resource of the pull request the call addresses, and carries the
\* caller's strategy, or merge-commit when the call has none, and the
\* caller's message as given.
C20_MergeStrategy ==
  \A c \in Slots :
    calls[c].name = "merge_pull_request"
    => \A i \in DOMAIN calls[c].sent :
         LET request == calls[c].sent[i]
             project == IF Supplied(calls[c].args.project)
                          THEN calls[c].args.project ELSE config.defaultProject
         IN /\ request.method = "POST"
            /\ request.path = <<"projects", project.s, "repos",
                                calls[c].args.repository.s, "pull-requests",
                                ToStr(calls[c].args.prId), "merge">>
            /\ request.body.strategy =
                 GivenOr(calls[c].args.strategy, Str("merge-commit"))
            /\ request.body.message = calls[c].args.message

C20_Witness ==
  \E c \in Slots :
    /\ calls[c].name = "merge_pull_request"
    /\ calls[c].args.strategy = Undef
    /\ calls[c].args.message = Str("Merged PR")
    /\ Len(calls[c].sent) = 1
    /\ calls[c].sent[1].body.strategy = Str("merge-commit")
    /\ calls[c].sent[1].body.message = Str("Merged PR")
    /\ calls[c].sent[1].path[7] = "merge"

\* C21: list_repositories never fails before its request and always sends
\* one: to /projects/{project}/repos with the call's project when it has one,
\* with the default project when it has none and a default is configured, and
\* to /repos when there is neither.
C21_ListRepositoriesPath ==
  \A c \in Slots :
    (Acted(c) /\ calls[c].name = "list_repositories")
    => /\ Len(calls[c].sent) = 1
       /\ calls[c].sent[1].method = "GET"
       /\ calls[c].sent[1].path =
            IF Supplied(calls[c].args.project)
              THEN <<"projects", calls[c].args.project.s, "repos">>
            ELSE IF Supplied(config.defaultProject)
              THEN <<"projects", config.defaultProject.s, "repos">>
            ELSE <<"repos">>
       /\ calls[c].outcome.status = "error" => UpstreamFailed(c)

C21_Witness ==
  \E c \in Slots :
    /\ calls[c].name = "list_repositories"
    /\ ~Supplied(calls[c].args.project)
    /\ ~Supplied(config.defaultProject)
    /\ Len(calls[c].sent) = 1
    /\ calls[c].sent[1].path = <<"repos">>
    /\ calls[c].outcome.status = "result"

\* C22: every request of add_comment carries the call's text as given, and
\* as parent {id: parentId} when the call has a parentId and no parent when
\* it has none.
C22_ParentForwarded ==
  \A c \in Slots :
    calls[c].name = "add_comment"
    => \A i \in DOMAIN calls[c].sent :
         /\ calls[c].sent[i].body.text = calls[c].args.text
         /\ calls[c].sent[i].body.parent =
              IF calls[c].args.parentId # Undef
                THEN [id |-> calls[c].args.parentId] ELSE Undef

\* what stops a call before its request: an unknown name, arguments its
\* handler rejects, no project to resolve, or an anchor that cannot be built
StopsBeforeRequest(name, args) ==
  LET noProject == ~Supplied(args.project) /\ ~Supplied(config.defaultProject)
      noPr == ~Truthy(args.repository) \/ ~Truthy(args.prId)
  IN CASE name \in {"list_projects", "list_repositories"} -> FALSE
       [] name = "list_pull_requests" -> noProject \/ ~Truthy(args.repository)
       [] name = "create_pull_request" ->
            \/ \E f \in {"repository", "title", "sourceBranch", "targetBranch"} :
                 ~IsString(args[f])
            \/ ~(args.project = Undef \/ IsString(args.project))
            \/ ~(args.description = Undef \/ IsString(args.description))
            \/ ~(args.reviewers = Undef \/ args.reviewers.t = "array")
            \/ noProject
       [] name = "add_comment" ->
            noProject \/ noPr \/ (Truthy(args.filePath) /\ ~Truthy(args.lineNumber))
       [] name \in PrTools -> noProject \/ noPr
       [] OTHER -> TRUE

\* C23: a call makes at most one upstream request: none when its name is
\* unknown or validation, project resolution or anchor building fails, and
\* exactly one otherwise; the requests of a call never grow once it has sent
\* one, so an upstream failure is not retried.
C23_AtMostOneRequest ==
  /\ [](\A c \in Slots :
          Acted(c)
          => /\ Len(calls[c].sent) <= 1
             /\ calls[c].sent = <<>> <=> StopsBeforeRequest(calls[c].name, calls[c].args))
  /\ [][\A c \in Slots :
          calls[c].sent # <<>>
          => calls'[c].sent = calls[c].sent \/ calls'[c] = IdleCall]_vars

C23_Witness ==
  \E c \in Slots :
    /\ UpstreamFailed(c)
    /\ Len(calls[c].sent) = 1
    /\ calls[c].outcome.status = "error"

PrScopedTools == PrTools \cup {"list_pull_requests", "create_pull_request"}

\* the projects a request of call c may address: the call's own, the default
OwnOrDefault(c) ==
  {v.s : v \in {w \in {calls[c].args.project, config.defaultProject} : Supplied(w)}}

\* C25: every request sent for a tool that works inside a project addresses
\* a project that is not empty and is the one the call supplied or the
\* configured default, in its path and, for create_pull_request, in the two
\* refs of its body.
C25_ResolvedProject ==
  \A c \in Slots :
    calls[c].name \in PrScopedTools
    => \A i \in DOMAIN calls[c].sent :
         LET request == calls[c].sent[i]
         IN /\ request.path[1] = "projects"
            /\ request.path[2] # ""
            /\ request.path[2] \in OwnOrDefault(c)
            /\ calls[c].name = "create_pull_request"
                 => /\ request.body.fromRef.repository.project.key = Str(request.path[2])
                    /\ request.body.toRef.repository.project.key = Str(request.path[2])

C25_Witness ==
  \E c \in Slots :
    /\ calls[c].name = "create_pull_request"
    /\ calls[c].args.project = Undef
    /\ Len(calls[c].sent) = 1
    /\ calls[c].sent[1].path[2] = "DEFAULT"
    /\ calls[c].sent[1].body.toRef.repository.project.key = Str("DEFAULT")

\* C26: whatever calls and list-tools queries were made and however they
\* ended, the configuration and the axios instance built from it are those
\* of construction, both handlers stay registered, and whenever no call is
\* in progress a further call can be made.
C26_ConfigFrame ==
  /\ [][config' = config /\ server' = server]_vars
  /\ [](/\ server = NewServer(config)
        /\ server.status = "running"
        /\ server.handlers = Handlers
        /\ calls["a"].pc = "Idle" => ENABLED Call("a"))

C26_Witness ==
  /\ calls["a"].pc = "Settled"
  /\ FailedWith("a", "InternalError")
  /\ listed = ListToolsResult
  /\ config.defaultProject = Str("DEFAULT")
  /\ server.api.baseURL = "https://bitbucket.example.com/rest/api/1.0"

\* what a call does when it is the only one: its request, or none, and the
\* outcome it has once it is settled
AloneSent(c) ==
  LET step == CallToolTry(calls[c].name, calls[c].args, config)
  IN IF step.op = "throw" THEN <<>> ELSE <<step.request>>

AloneOutcome(c) ==
  LET before == CallToolTry(calls[c].name, calls[c].args, config)
      after == IF calls[c].response.ok
                 THEN CallToolResume(calls[c].name, calls[c].args, config,
                                     calls[c].response.data)
                 ELSE Raise(calls[c].response.error)
      step == IF before.op = "throw" THEN before ELSE after
  IN IF step.op = "throw"
       THEN Failed(CallToolCatch(step.error)) ELSE Succeeded(step.content)

BothInFlight == \A c \in Slots : calls[c].pc # "Idle"

\* C27: with two calls in flight, in whatever order their steps were taken,
\* the request and the outcome of each call are those it has when it runs
\* alone: a function of its own name and arguments, the configuration and
\* its own upstream response.
C27_CallsIndependent ==
  \A c \in Slots :
    Acted(c)
    => /\ calls[c].sent = AloneSent(c)
       /\ calls[c].pc = "Settled" => calls[c].outcome = AloneOutcome(c)
       /\ calls[c].pc = "Executing" => calls[c].outcome = NoOutcome

C27_Witness ==
  /\ BothInFlight
  /\ calls["a"].name = "get_pull_request" /\ calls["a"].args.project = Str("OTHER")
  /\ calls["a"].pc = "Settled" /\ calls["a"].outcome.status = "result"
  /\ calls["a"].sent[1].path[2] = "OTHER"
  /\ calls["b"].name = "add_comment" /\ calls["b"].args.project = Str("PROJ")
  /\ calls["b"].pc = "Executing"
  /\ HasAnchor(calls["b"].sent[1])
  /\ calls["b"].sent[1].path[2] = "PROJ"

\* C28: no call begins its validation and dispatch while another call is
\* between its start and its completion, awaiting its upstream response
\* included: calls are processed strictly one at a time.
C28_OneAtATime ==
  [][\A c, d \in Slots :
       (c # d /\ calls[c].pc = "Idle" /\ calls'[c].pc # "Idle")
       => calls[d].pc # "Executing"]_vars

\* C28 as the handler has it: a step of the handler belongs to one call and
\* runs to its await or its end without another call's step in between, but
\* a call that awaits its upstream response holds nothing back: a further
\* call can begin at any time.
C28_OneStepAtATime ==
  /\ [][\A c, d \in Slots :
          c # d => (calls'[c] = calls[c] \/ calls'[d] = calls[d])]_vars
  /\ [](\A c \in Slots : calls[c].pc = "Idle" => ENABLED CallPair(c))

C28_Witness ==
  /\ calls["a"].pc = "Executing"
  /\ calls["b"].pc = "Executing"
  /\ calls["a"].name = "get_pull_request"
  /\ calls["b"].name = "get_pull_request"
  /\ calls["a"].args # calls["b"].args

\* the names the list-tools query answers with
ListedNames == {ListToolsResult[i].name : i \in DOMAIN ListToolsResult}

C30_AnchorWellFormed ==
  \A c \in Slots :
    calls[c].name = "add_comment"
    => \A i \in DOMAIN calls[c].sent :
         HasAnchor(calls[c].sent[i])
         => LET anchor == calls[c].sent[i].body.anchor
            IN /\ anchor.diffType \in {Str("COMMIT"), Str("RANGE"), Str("EFFECTIVE")}
               /\ anchor.lineType \in {Str("CONTEXT"), Str("ADDED"), Str("REMOVED")}
               /\ anchor.fileType \in {Str("FROM"), Str("TO")}
               /\ IsNumber(anchor.line)
               /\ anchor.line.n > 0

====
